---------------------------- MODULE Spec2Model ----------------------------
(***************************************************************************)
(* A model of cfiddle's server core:                                       *)
(*   - the session state machine of src/src/server/socket-connection.ts    *)
(*     (class SocketConnection and the validator getRunParams), and        *)
(*   - the process-introspection engine of src/unnamed/part_001            *)
(*     (table reconstruction from the parsed kernel dump).                 *)
(*                                                                         *)
(* Specification Spec is one session: the client's events, the completion  *)
(* of the session's asynchronous calls and the container's callbacks, each *)
(* handler one atomic action (JavaScript runs a handler to its next await  *)
(* without interleaving).  socket.disconnect() of socket.io emits the      *)
(* 'disconnect' event synchronously while socket.connected is true, so the *)
(* session's own disconnect runs onSocketDisconnect inside the caller.     *)
(* Client events reach the handlers only while the socket is connected;    *)
(* the persistence calls resolve in any order and do not fail; a container *)
(* calls its callbacks from construction until its exit notification,      *)
(* which it sends once.                                                    *)
(*                                                                         *)
(* Specification SpecTables draws one parsed kernel dump                   *)
(* (RawInfoByNamespace) from a bounded set and applies reconstructTables.  *)
(*                                                                         *)
(* Specification SpecParams draws one run request from a bounded set and   *)
(* applies getRunParams to it; specification SpecFlags draws one bitmask   *)
(* and applies readFlags to it.                                            *)
(*                                                                         *)
(* Specification SpecPoll is the engine outside mock mode: init() reads    *)
(* the dump once and then starts the interval timer; every tick starts a   *)
(* read of its own, reads in progress at the same time complete in any     *)
(* order, and calls of getContainerInfo interleave with them.              *)
(***************************************************************************)
EXTENDS Integers, Sequences, FiniteSets, TLC

VARIABLES
    connected,      \* socket.connected
    container,      \* this.container: 0 is null, else the index of a container in ctrs
    runId,          \* this.runId: 0 is unassigned
    runs,           \* the run requests that passed the guard of startContainer, with their stage
    ctrs,           \* every Container the session constructed
    emitted,        \* every socket.emit of the session, in order
    clientEvents,   \* number of client events handled so far
    callbacks,      \* number of output/debug-info callbacks of containers so far
    last,           \* the handler that ran last: its calls in order, and whether it threw
    namespaces,     \* the parsed kernel dump (RawInfoByNamespace)
    processInfo,    \* the module variable processInfo: [set, containers], set FALSE while null
    validation,     \* one call of getRunParams: its request and, once done, its outcome
    decoded,        \* one call of readFlags: its bitmask and, once done, the flags returned
    engine          \* the poller and the calls of getContainerInfo: the reads of the kernel
                    \* dump in progress, which read the published snapshot came from, and
                    \* the lookups with their results

vars == <<connected, container, runId, runs, ctrs, emitted, clientEvents, callbacks, last,
          namespaces, processInfo, validation, decoded, engine>>

---------------------------------------------------------------------------
(* Bounds of the model *)

MaxRuns == 2            \* run requests that pass the guard of startContainer
MaxClientEvents == 2    \* client events (run, data, resize, debug commands) in one session
MaxCallbacks == 1       \* output and debug-info callbacks of the containers in one session
CFLAGS_MAX_LEN == 14    \* db.CFLAGS_MAX_LEN, scaled to the model's strings
CODE_MAX_LEN == 2       \* db.CODE_MAX_LEN, scaled
ARGS_MAX_LEN == 2       \* db.ARGS_MAX_LEN, scaled

\* JavaScript's null and undefined, where a value may be absent
Null == "null"

---------------------------------------------------------------------------
(* Strings: a string is a sequence of characters, a flag one word of a     *)
(* fixed vocabulary with its length.                                       *)

StrLen(w) ==
    CASE w = "C99" -> 3
      [] w = "C11" -> 3
      [] w = "C++17" -> 5
      [] w = "Java" -> 4
      [] w = "-O2" -> 3
      [] w = "-Wall" -> 5
      [] w = "-fplugin=x" -> 10
      [] w = "-std=c99" -> 8
      [] w = "-std=c11" -> 8
      [] w = "-std=c++17" -> 10
      [] w = "" -> 0
      [] OTHER -> 1

SUPPORTED_VERSIONS == {"C99", "C11", "C++17"}
DEFAULT_VERSION == "C++17"
FLAG_WHITELIST == {"-O2", "-Wall"}

\* db.getFileContents: the uploaded files the store resolves
getFileContents(id) == IF id = "fileOk" THEN "bytes" ELSE Null

\* `-std=${lang.toLowerCase()}` for a supported version
StdFlag(lang) ==
    CASE lang = "C99" -> "-std=c99"
      [] lang = "C11" -> "-std=c11"
      [] lang = "C++17" -> "-std=c++17"

\* the flags filter letting every flag through
KeepAllFlags(flags) == flags

RECURSIVE SelectWhitelisted(_)
SelectWhitelisted(flags) ==
    IF flags = <<>> THEN <<>>
    ELSE IF Head(flags) \in FLAG_WHITELIST
         THEN <<Head(flags)>> \o SelectWhitelisted(Tail(flags))
         ELSE SelectWhitelisted(Tail(flags))

RECURSIVE JoinLen(_)
\* the length of words.join(' ')
JoinLen(words) ==
    IF words = <<>> THEN 0
    ELSE IF Len(words) = 1 THEN StrLen(words[1])
    ELSE StrLen(Head(words)) + 1 + JoinLen(Tail(words))

\* lines 34-59 of getRunParams: everything before the first await
\* request.flags is [isArray, items]: an array of flags, or (isArray FALSE) a value
\* that is no array, with its length property (none when absent) in Len(items);
\* cflags is the composed string, word by word
RunParamsSync(request) ==
    LET lang == IF request.language \in SUPPORTED_VERSIONS
                THEN request.language ELSE DEFAULT_VERSION
        compiler == IF lang \in {"C99", "C11"} THEN "gcc" ELSE "g++"
        given == IF request.flags.isArray THEN request.flags.items ELSE <<>>
        suppliedCflags == SelectWhitelisted(given)
        \* (request.flags || []).length
        warned == Len(suppliedCflags) # Len(request.flags.items)
        \* `-std=${lang.toLowerCase()} ${suppliedCflags.join(' ')}`.trim()
        cflagsLen == 5 + StrLen(lang)
                     + (IF suppliedCflags = <<>> THEN 0 ELSE 1 + JoinLen(suppliedCflags))
        error == IF cflagsLen > CFLAGS_MAX_LEN THEN "cflags"
                 ELSE IF Len(request.code) > CODE_MAX_LEN THEN "code"
                 ELSE IF Len(request.args) > ARGS_MAX_LEN THEN "args"
                 ELSE "none"
    IN [lang |-> lang, compiler |-> compiler, std |-> lang,
        cflags |-> <<StdFlag(lang)>> \o suppliedCflags, cflagsLen |-> cflagsLen,
        warned |-> warned,
        error |-> error]

\* lines 61-79 of getRunParams: after db.getFileContents resolved to includeFileData
RunParamsRest(request, includeFileData) ==
    LET breakpoints == request.breakpoints
        debug == request.debug
    IN IF request.includeFileId # "" /\ includeFileData = Null THEN "includeFileId"
       ELSE IF ~debug /\ Len(breakpoints) > 0 THEN "breakpoints"
       ELSE "none"

\* getRunParams without the rules that follow its await
getRunParamsWithoutRest(request) == RunParamsSync(request).error

\* getRunParams as a whole: "none" when it returns parameters, else the rule that
\* threw the ClientValidationError
getRunParams(request) ==
    LET sync == RunParamsSync(request)
        data == IF request.includeFileId # "" THEN getFileContents(request.includeFileId)
                ELSE Null
    IN IF sync.error # "none" THEN sync.error ELSE RunParamsRest(request, data)

\* one call of getRunParams (lines 24-80) with all it does: whether it threw and
\* the kind of the error, the warning of line 43, the flag string of line 46 and
\* (meaningful when it did not throw) the parameters of line 77
RunParamsOutcome(request) ==
    LET sync == RunParamsSync(request)
        error == getRunParams(request)
        includeFileData == IF request.includeFileId # ""
                           THEN getFileContents(request.includeFileId) ELSE Null
    IN [threw |-> error # "none",
        kind |-> IF error # "none" THEN "ClientValidationError" ELSE "none",
        warned |-> sync.warned,
        cflags |-> sync.cflags,
        compiler |-> sync.compiler,
        code |-> request.code,
        argsStr |-> request.args,
        includeFileId |-> IF includeFileData = Null THEN Null ELSE request.includeFileId,
        includeFileData |-> includeFileData,
        debug |-> request.debug,
        breakpoints |-> request.breakpoints]

---------------------------------------------------------------------------
(* The introspection engine: flag decoding *)

\* FILE_FLAGS in the order of its keys (octal literals written in decimal)
FILE_FLAGS ==
    << [name |-> "O_RDONLY", bits |-> 0],
       [name |-> "O_WRONLY", bits |-> 1],
       [name |-> "O_RDWR", bits |-> 2],
       [name |-> "O_APPEND", bits |-> 1024],
       [name |-> "O_NONBLOCK", bits |-> 2048],
       [name |-> "O_NDELAY", bits |-> 2048],
       [name |-> "O_SYNC", bits |-> 1052672],
       [name |-> "O_ASYNC", bits |-> 8192],
       [name |-> "O_DSYNC", bits |-> 4096],
       [name |-> "O_NOATIME", bits |-> 262144],
       [name |-> "O_CLOEXEC", bits |-> 524288],
       [name |-> "S_IFIFO", bits |-> 4096],
       [name |-> "S_IFCHR", bits |-> 8192],
       [name |-> "S_IFDIR", bits |-> 16384],
       [name |-> "S_IFBLK", bits |-> 24576],
       [name |-> "S_IFREG", bits |-> 32768],
       [name |-> "S_IFLNK", bits |-> 40960],
       [name |-> "S_IFSOCK", bits |-> 49152] >>

RECURSIVE BitAnd(_, _)
\* a & b on non-negative integers
BitAnd(a, b) ==
    IF a = 0 \/ b = 0 THEN 0
    ELSE (a % 2) * (b % 2) + 2 * BitAnd(a \div 2, b \div 2)

\* Array.prototype.indexOf: the first 1-based position of x, 0 when absent
IndexOf(seq, x) ==
    IF \E k \in 1..Len(seq) : seq[k] = x
    THEN CHOOSE k \in 1..Len(seq) : seq[k] = x /\ \A j \in 1..(k - 1) : seq[j] # x
    ELSE 0

\* seq.splice(-1, 1) whatever x is: removes the last element
SpliceLast(seq, x) == [k \in 1..(Len(seq) - 1) |-> seq[k]]

\* seq.splice(indexOf(x), 1): removes the element at that position; indexOf's -1
\* (absent) makes splice remove the last element
SpliceAtIndexOf(seq, x) ==
    LET at == IF IndexOf(seq, x) = 0 THEN Len(seq) ELSE IndexOf(seq, x)
    IN [k \in 1..(Len(seq) - 1) |-> IF k < at THEN seq[k] ELSE seq[k + 1]]

\* readFlags without its edge case: O_RDONLY stays
readFlagsKeepReadOnly(octal) ==
    LET matched == SelectSeq(FILE_FLAGS, LAMBDA f : BitAnd(octal, f.bits) = f.bits)
    IN [k \in 1..Len(matched) |-> matched[k].name]

RECURSIVE parseInt8(_)
\* parseInt(octalStr, 8) of a string of octal digits (line 157)
parseInt8(digits) ==
    IF digits = <<>> THEN 0
    ELSE 8 * parseInt8(SubSeq(digits, 1, Len(digits) - 1)) + digits[Len(digits)]

\* readFlags (lines 156-185) on the value parseInt(octalStr, 8): the names of the
\* flags, in the order of FILE_FLAGS
readFlags(octal) ==
    LET matched == SelectSeq(FILE_FLAGS, LAMBDA f : BitAnd(octal, f.bits) = f.bits)
        flags == [k \in 1..Len(matched) |-> matched[k].name]
        has(x) == \E k \in 1..Len(flags) : flags[k] = x
    IN IF has("O_WRONLY") \/ has("O_RDWR")
       THEN SpliceAtIndexOf(flags, "O_RDONLY")
       ELSE flags

---------------------------------------------------------------------------
(* The introspection engine: the parsed dump *)

MaxPid == 3             \* container-relative pids 1..MaxPid in a namespace
MaxFiles == 3           \* file records in the first namespace of a dump

ContainerPids == 1..MaxPid
Fds == {0, 1}

\* the global pid of a process: unique in the system, and no container-relative pid
GlobalPid(ns, pid) == (IF ns = "nsA" THEN 100 ELSE 200) + pid
GlobalPids == {GlobalPid(ns, pid) : ns \in {"nsA", "nsB"}, pid \in ContainerPids}

\* readProcessLine (lines 190-208)
readProcessLine(ns, pid) ==
    [namespaceID |-> ns, globalPID |-> GlobalPid(ns, pid), containerPID |-> pid,
     containerPPID |-> pid - 1, containerPGID |-> IF pid = 1 THEN 1 ELSE 2,
     command |-> "a.out", files |-> <<>>]

\* readFileLine (lines 214-231): line is [fd, closeOnExec, openFileID, pos, flags, vnodeName]
readFileLine(line) ==
    [fd |-> line.fd, closeOnExec |-> line.closeOnExec, openFileID |-> line.openFileID,
     pos |-> line.pos, flags |-> readFlags(line.flags), vnodeName |-> line.vnodeName]

\* the file lines of the model's dumps, without their descriptor number:
\* open file f1 as it is, with another offset, other flags, another vnode, and f2
FileLines ==
    { [openFileID |-> "f1", pos |-> 0, flags |-> 32770, vnodeName |-> "v1"],
      [openFileID |-> "f1", pos |-> 7, flags |-> 32770, vnodeName |-> "v1"],
      [openFileID |-> "f1", pos |-> 0, flags |-> 1, vnodeName |-> "v1"],
      [openFileID |-> "f1", pos |-> 0, flags |-> 32770, vnodeName |-> "v2"],
      [openFileID |-> "f2", pos |-> 0, flags |-> 32770, vnodeName |-> "v1"] }

FileLine(fd, l) ==
    [fd |-> fd, closeOnExec |-> FALSE, openFileID |-> l.openFileID, pos |-> l.pos,
     flags |-> l.flags, vnodeName |-> l.vnodeName]

\* readFileLine of each file line of the model, read once (as descriptor 0)
ParsedFileLines == [l \in FileLines |-> readFileLine(FileLine(0, l))]

\* loadRawProcessInfo (lines 247-286) for one namespace: processes pids, and the
\* file lines lines[<<pid, fd>>] of the descriptors in DOMAIN lines
RawContainer(ns, pids, lines) ==
    [pid \in pids |->
        [readProcessLine(ns, pid) EXCEPT
            !.files = [fd \in {sl[2] : sl \in {x \in DOMAIN lines : x[1] = pid}} |->
                          [ParsedFileLines[lines[<<pid, fd>>]] EXCEPT !.fd = fd]]]]

\* the second namespace of a dump: well-formed (it shares no open file with the
\* first, though the ids look alike), or without an init process
SiblingWellFormed ==
    RawContainer("nsB", {1, 2},
                 (<<1, 0>> :> CHOOSE l \in FileLines : l.openFileID = "f2")
                 @@ (<<2, 0>> :> CHOOSE l \in FileLines : l.openFileID = "f2")
                 @@ (<<2, 1>> :> CHOOSE l \in FileLines : l.openFileID = "f2"))
SiblingNoInit ==
    RawContainer("nsB", {2}, (<<2, 0>> :> CHOOSE l \in FileLines : l.openFileID = "f2"))

\* the dumps of the model (RawInfoByNamespace): namespace nsA with any processes
\* and at most MaxFiles file lines, alone or followed by a sibling
Dump(pids, lines, sibling) ==
    IF sibling = "none" THEN ("nsA" :> RawContainer("nsA", pids, lines))
    ELSE ("nsA" :> RawContainer("nsA", pids, lines))
         @@ ("nsB" :> IF sibling = "wellFormed" THEN SiblingWellFormed ELSE SiblingNoInit)

\* Object.keys of the dump: the namespaces in the order their first line was read
NamespaceOrder == <<"nsA", "nsB">>
ObjectKeys(nss) == SelectSeq(NamespaceOrder, LAMBDA ns : ns \in DOMAIN nss)

---------------------------------------------------------------------------
(* The introspection engine: reconstruction *)

RECURSIVE SortedSeq(_)
\* the elements of a set of numbers in ascending order
SortedSeq(S) ==
    IF S = {} THEN <<>>
    ELSE LET m == CHOOSE x \in S : \A y \in S : x <= y
         IN <<m>> \o SortedSeq(S \ {m})

\* Object.values of an object with integer keys: in ascending key order
ObjectValues(obj) ==
    LET keys == SortedSeq(DOMAIN obj) IN [k \in 1..Len(keys) |-> obj[keys[k]]]

RECURSIVE Flat(_)
\* Array.prototype.flat of an array of arrays
Flat(seqs) == IF seqs = <<>> THEN <<>> ELSE Head(seqs) \o Flat(Tail(seqs))

\* deepCompare (lines 289-292) on values whose serialisation is injective
deepCompare(obj1, obj2) == obj1 = obj2

\* populateProcessTable copying the process's global pid where its pid belongs
populateProcessTableGlobalPid(rawProcesses) ==
    [k \in 1..Len(rawProcesses) |->
        LET proc == rawProcesses[k]
        IN [pid |-> proc.globalPID, ppid |-> proc.containerPPID,
            pgid |-> proc.containerPGID, command |-> proc.command,
            fds |-> [fd \in DOMAIN proc.files |->
                        [file |-> proc.files[fd].openFileID,
                         closeOnExec |-> proc.files[fd].closeOnExec]]]]

\* populateProcessTable (lines 294-312)
populateProcessTable(rawProcesses) ==
    [k \in 1..Len(rawProcesses) |->
        LET proc == rawProcesses[k]
            files == ObjectValues(proc.files)
            fds == [fd \in {files[j].fd : j \in 1..Len(files)} |->
                       LET file == files[CHOOSE j \in 1..Len(files) :
                                             files[j].fd = fd
                                             /\ \A i \in (j + 1)..Len(files) : files[i].fd # fd]
                       IN [file |-> file.openFileID, closeOnExec |-> file.closeOnExec]]
        IN [pid |-> proc.containerPID, ppid |-> proc.containerPPID,
            pgid |-> proc.containerPGID, command |-> proc.command, fds |-> fds]]

\* { ...entry, refcount: undefined }, as JSON.stringify sees it
WithoutRefcount(entry) ==
    [position |-> entry.position, flags |-> entry.flags, vnode |-> entry.vnode]

RECURSIVE foldOpenFiles(_, _)
\* the loop of populateOpenFileTable from the files still to fold and the table so far
foldOpenFiles(rawFiles, openFiles) ==
    IF rawFiles = <<>> THEN [threw |-> FALSE, value |-> openFiles]
    ELSE LET file == Head(rawFiles)
             openFileEntry == [position |-> file.pos, flags |-> file.flags,
                               refcount |-> 1, vnode |-> file.vnodeName]
         IN IF file.openFileID \notin DOMAIN openFiles
            THEN foldOpenFiles(Tail(rawFiles), openFiles @@ (file.openFileID :> openFileEntry))
            ELSE IF deepCompare(WithoutRefcount(openFileEntry),
                                WithoutRefcount(openFiles[file.openFileID]))
            THEN foldOpenFiles(Tail(rawFiles),
                               [openFiles EXCEPT ![file.openFileID].refcount = @ + 1])
            ELSE [threw |-> TRUE, value |-> <<>>]

RECURSIVE foldOpenFilesNoCount(_, _)
\* the loop of populateOpenFileTable without `refcount += 1`
foldOpenFilesNoCount(rawFiles, openFiles) ==
    IF rawFiles = <<>> THEN [threw |-> FALSE, value |-> openFiles]
    ELSE LET file == Head(rawFiles)
             openFileEntry == [position |-> file.pos, flags |-> file.flags,
                               refcount |-> 1, vnode |-> file.vnodeName]
         IN IF file.openFileID \notin DOMAIN openFiles
            THEN foldOpenFilesNoCount(Tail(rawFiles),
                                      openFiles @@ (file.openFileID :> openFileEntry))
            ELSE IF deepCompare(WithoutRefcount(openFileEntry),
                                WithoutRefcount(openFiles[file.openFileID]))
            THEN foldOpenFilesNoCount(Tail(rawFiles), openFiles)
            ELSE [threw |-> TRUE, value |-> <<>>]

populateOpenFileTableNoCount(rawFiles) == foldOpenFilesNoCount(rawFiles, <<>>)

\* populateOpenFileTable making a fresh entry of every file record: the last record
\* of an open-file id wins, nothing is counted or compared
populateOpenFileTableLastWins(rawFiles) ==
    [threw |-> FALSE,
     value |-> [id \in {rawFiles[k].openFileID : k \in 1..Len(rawFiles)} |->
                   LET file == rawFiles[CHOOSE k \in 1..Len(rawFiles) :
                                           /\ rawFiles[k].openFileID = id
                                           /\ \A j \in (k + 1)..Len(rawFiles) :
                                                 rawFiles[j].openFileID # id]
                   IN [position |-> file.pos, flags |-> file.flags, refcount |-> 1,
                       vnode |-> file.vnodeName]]]

\* populateOpenFileTable (lines 314-338): the table, or threw (DebugDataError)
populateOpenFileTable(rawFiles) == foldOpenFiles(rawFiles, <<>>)

RECURSIVE foldVnodes(_, _)
\* the first loop of populateVnodeTable (lines 343-356)
foldVnodes(rawFiles, vnodes) ==
    IF rawFiles = <<>> THEN [threw |-> FALSE, value |-> vnodes]
    ELSE LET file == Head(rawFiles)
             vnodeEntry == [name |-> file.vnodeName, refcount |-> 0]
         IN IF file.vnodeName \notin DOMAIN vnodes
            THEN foldVnodes(Tail(rawFiles), vnodes @@ (file.vnodeName :> vnodeEntry))
            ELSE IF ~deepCompare(vnodeEntry, vnodes[file.vnodeName])
            THEN [threw |-> TRUE, value |-> <<>>]
            ELSE foldVnodes(Tail(rawFiles), vnodes)

RECURSIVE setRefcounts(_, _, _)
\* the second loop of populateVnodeTable (lines 358-361), over the open files ids
setRefcounts(ids, openFiles, vnodes) ==
    IF ids = {} THEN vnodes
    ELSE LET id == CHOOSE x \in ids : TRUE
         IN setRefcounts(ids \ {id}, openFiles,
                         [vnodes EXCEPT ![openFiles[id].vnode].refcount = @ + 1])

RECURSIVE countDescriptors(_, _)
\* refcounts set from the file records instead of the open files
countDescriptors(rawFiles, vnodes) ==
    IF rawFiles = <<>> THEN vnodes
    ELSE countDescriptors(Tail(rawFiles),
                          [vnodes EXCEPT ![Head(rawFiles).vnodeName].refcount = @ + 1])

\* populateVnodeTable counting a vnode's descriptors
populateVnodeTableByDescriptor(rawFiles, openFiles) ==
    LET folded == foldVnodes(rawFiles, <<>>)
    IN IF folded.threw THEN folded
       ELSE [threw |-> FALSE, value |-> countDescriptors(rawFiles, folded.value)]

\* populateVnodeTable making entries of the first file record only
populateVnodeTableOfFirstFile(rawFiles, openFiles) ==
    LET folded == foldVnodes(IF rawFiles = <<>> THEN <<>> ELSE <<Head(rawFiles)>>, <<>>)
    IN [threw |-> FALSE,
        value |-> [v \in DOMAIN folded.value |->
                      [folded.value[v] EXCEPT !.refcount =
                          Cardinality({id \in DOMAIN openFiles : openFiles[id].vnode = v})]]]

\* populateVnodeTable (lines 340-364)
populateVnodeTable(rawFiles, openFiles) ==
    LET folded == foldVnodes(rawFiles, <<>>)
    IN IF folded.threw THEN folded
       ELSE [threw |-> FALSE, value |-> setRefcounts(DOMAIN openFiles, openFiles, folded.value)]

\* the filter of cleanContainerData with 2 where 1 is
ExposedProcessesAboveTwo(rawProcesses) ==
    SelectSeq(ObjectValues(rawProcesses), LAMBDA proc : proc.containerPID > 2)

\* the processes cleanContainerData exposes (lines 376-378)
ExposedProcesses(rawProcesses) ==
    SelectSeq(ObjectValues(rawProcesses), LAMBDA proc : proc.containerPID > 1)

Thrown == [threw |-> TRUE, globalPID |-> 0, data |-> <<>>]

\* cleanContainerData taking the namespace's first process for its init process
\* when no process has pid 1
cleanContainerDataAnyInit(rawProcesses) ==
    IF DOMAIN rawProcesses = {} THEN Thrown
    ELSE LET initProcess == ObjectValues(rawProcesses)[1]
             processes == ExposedProcesses(rawProcesses)
             files == Flat([k \in 1..Len(processes) |-> ObjectValues(processes[k].files)])
             openFileTable == populateOpenFileTable(files)
             vnodeTable == IF openFileTable.threw THEN openFileTable
                           ELSE populateVnodeTable(files, openFileTable.value)
         IN IF openFileTable.threw \/ vnodeTable.threw THEN Thrown
            ELSE [threw |-> FALSE,
                  globalPID |-> initProcess.globalPID,
                  data |-> [processes |-> populateProcessTable(processes),
                            openFiles |-> openFileTable.value,
                            vnodes |-> vnodeTable.value]]

\* cleanContainerData (lines 366-392): [globalPID, data], or threw (DebugDataError)
cleanContainerData(rawProcesses) ==
    IF 1 \notin DOMAIN rawProcesses THEN Thrown
    ELSE LET initProcess == rawProcesses[1]
             processes == ExposedProcesses(rawProcesses)
             files == Flat([k \in 1..Len(processes) |-> ObjectValues(processes[k].files)])
             openFileTable == populateOpenFileTable(files)
             vnodeTable == IF openFileTable.threw THEN openFileTable
                           ELSE populateVnodeTable(files, openFileTable.value)
         IN IF openFileTable.threw \/ vnodeTable.threw THEN Thrown
            ELSE [threw |-> FALSE,
                  globalPID |-> initProcess.globalPID,
                  data |-> [processes |-> populateProcessTable(processes),
                            openFiles |-> openFileTable.value,
                            vnodes |-> vnodeTable.value]]

RECURSIVE reconstructFrom(_, _, _)
\* the loop of reconstructTables over the namespace ids still to clean
reconstructFrom(nss, ids, containers) ==
    IF ids = <<>> THEN containers
    ELSE LET cleaned == cleanContainerData(nss[Head(ids)])
         IN reconstructFrom(nss, Tail(ids),
                IF cleaned.threw THEN containers
                ELSE [g \in DOMAIN containers \cup {cleaned.globalPID} |->
                         IF g = cleaned.globalPID THEN cleaned.data ELSE containers[g]])

\* reconstructTables without its try/catch: one namespace's DebugDataError ends
\* the reconstruction and nothing is returned
reconstructTablesNoCatch(nss) ==
    IF \E ns \in DOMAIN nss : cleanContainerData(nss[ns]).threw
    THEN <<>>
    ELSE reconstructFrom(nss, ObjectKeys(nss), <<>>)

\* reconstructTables (lines 400-415)
reconstructTables(nss) == reconstructFrom(nss, ObjectKeys(nss), <<>>)

---------------------------------------------------------------------------
(* The session *)

BaseRequest ==
    [language |-> "C99", flags |-> [isArray |-> TRUE, items |-> <<"-O2">>], code |-> <<"c">>, args |-> <<>>,
     includeFileId |-> "", debug |-> FALSE, breakpoints |-> <<>>]

\* the run requests a client of the model sends
RunRequests ==
    { BaseRequest,
      [BaseRequest EXCEPT !.includeFileId = "fileOk"],
      [BaseRequest EXCEPT !.includeFileId = "fileBad"],
      [BaseRequest EXCEPT !.code = [k \in 1..(CODE_MAX_LEN + 1) |-> "c"]],
      [BaseRequest EXCEPT !.breakpoints = <<1>>] }

DebugCommands ==
    {"debugSetBreakpoint", "debugRemoveBreakpoint", "debugProceed",
     "debugStepIn", "debugStepOut", "debugNext"}

\* the container method a debug command invokes (constructor, lines 106-123)
GdbMethod(cmd) ==
    CASE cmd = "debugSetBreakpoint" -> "gdbSetBreakpoint"
      [] cmd = "debugRemoveBreakpoint" -> "gdbRemoveBreakpoint"
      [] cmd = "debugProceed" -> "gdbProceed"
      [] cmd = "debugStepIn" -> "gdbStepIn"
      [] cmd = "debugStepOut" -> "gdbStepOut"
      [] cmd = "debugNext" -> "gdbNext"

\* what a container method can do: return, throw a DebugStateError, throw another error
GdbOutcomes == {"ok", "DebugStateError", "Error"}
DebugStateMessage == "Program is not paused"
NoProgramMessage == "No program is currently running."

\* what the store resolves the persistence calls of run i to: the row {id, alias}
\* of db.insertProgram (line 160) and the run id of db.createRun (line 163)
ProgramRow(i) == [id |-> 10 + i, alias |-> 20 + i]
RunIdOf(i) == i

\* the exit notifications a container sends (ContainerExitNotification)
ExitNotifications ==
    { [exitStatus |-> 0, signal |-> Null, runtimeMs |-> 5, output |-> "out"],
      [exitStatus |-> 137, signal |-> "SIGKILL", runtimeMs |-> 9, output |-> ""] }

\* what a container hands to onContainerOutput ('data') and onDebugInfo ('debug')
CallbackData(ev) == IF ev = "data" THEN "stdout" ELSE "ContainerInfo"

\* the payloads of the client's 'data' and 'resize' events
StdinData == {"a", "b"}
ResizeData == {[rows |-> 30, cols |-> 100]}
Payloads(ev) == IF ev = "data" THEN StdinData ELSE ResizeData

NoSnapshot == [set |-> FALSE, containers |-> <<>>]

\* no call of readFlags is under observation
NoDecoding == [octalStr |-> <<0>>, done |-> FALSE, flags |-> <<>>]

\* the engine before init(): no read of the dump started, nothing published, no
\* interval timer, no lookup
NoEngine == [ticks |-> 0, loads |-> <<>>, interval |-> FALSE, published |-> 0,
             lookups |-> <<>>]

\* no call of getRunParams is under observation
NoValidation == [request |-> BaseRequest, done |-> FALSE, outcome |-> RunParamsOutcome(BaseRequest)]

Idle == [handler |-> "none", arg |-> "", calls |-> <<>>, threw |-> FALSE]

Init ==
    /\ connected = TRUE
    /\ container = 0
    /\ runId = 0
    /\ runs = <<>>
    /\ ctrs = <<>>
    /\ emitted = <<>>
    /\ clientEvents = 0
    /\ callbacks = 0
    /\ last = Idle
    /\ namespaces = <<>>
    /\ processInfo = NoSnapshot
    /\ validation = NoValidation
    /\ decoded = NoDecoding
    /\ engine = NoEngine

\* onSocketDisconnect (lines 197-202) applied to the containers: shutdown() on the held one
onSocketDisconnect(cs) ==
    IF container # 0
    THEN [cs EXCEPT ![container].shutdowns = @ + 1]
    ELSE cs

\* the calls of socket.disconnect(): nothing when the socket is not connected
\* (socket.io), else the 'disconnect' event and with it onSocketDisconnect
DisconnectCalls ==
    IF ~connected THEN <<>>
    ELSE <<<<"socket.disconnect">>>>
         \o (IF container # 0 THEN <<<<"shutdown", container>>>> ELSE <<>>)

\* the containers after socket.disconnect()
DisconnectCtrs == IF connected THEN onSocketDisconnect(ctrs) ELSE ctrs


Handled(h, a, cs) == [handler |-> h, arg |-> a, calls |-> cs, threw |-> FALSE]

\* the catch block of startContainer (lines 148-155): hang up
RejectRun(rs) ==
    /\ runs' = rs
    /\ connected' = FALSE
    /\ ctrs' = DisconnectCtrs
    /\ last' = Handled("run", "rejected", DisconnectCalls)
    /\ UNCHANGED <<container, runId, emitted>>

\* db.insertProgram(...) is called (line 158) and the handler returns
CallInsertProgram(rs, i) ==
    /\ runs' = rs
    /\ last' = Handled("run", "accepted", << <<"insertProgram", i>> >>)
    /\ UNCHANGED <<connected, container, runId, ctrs, emitted>>

\* startContainer without its test of this.container
RunEventNoGuard(request) ==
    /\ connected
    /\ clientEvents < MaxClientEvents
    /\ clientEvents' = clientEvents + 1
    /\ UNCHANGED <<callbacks, namespaces, processInfo, validation, decoded, engine>>
    /\ Len(runs) < MaxRuns
    /\ LET i == Len(runs) + 1
           entry(stage) == [request |-> request, stage |-> stage]
       IN IF RunParamsSync(request).error # "none"
          THEN RejectRun(Append(runs, entry("rejected")))
          ELSE IF request.includeFileId # ""
          THEN /\ runs' = Append(runs, entry("getFileContents"))
               /\ last' = Handled("run", "validating", << <<"getFileContents", i>> >>)
               /\ UNCHANGED <<connected, container, runId, ctrs, emitted>>
          ELSE IF RunParamsRest(request, Null) # "none"
          THEN RejectRun(Append(runs, entry("rejected")))
          ELSE CallInsertProgram(Append(runs, entry("insertProgram")), i)

\* startContainer (lines 126-173) from the 'run' event to its first suspension:
\* the guard, then getRunParams up to db.getFileContents (a request without an
\* include file is validated without suspension)
RunEvent(request) ==
    /\ connected
    /\ clientEvents < MaxClientEvents
    /\ clientEvents' = clientEvents + 1
    /\ UNCHANGED <<callbacks, namespaces, processInfo, validation, decoded, engine>>
    /\ IF container # 0
       THEN /\ last' = Handled("run", "ignored", <<>>)
            /\ UNCHANGED <<connected, container, runId, runs, ctrs, emitted>>
       ELSE /\ Len(runs) < MaxRuns
            /\ LET i == Len(runs) + 1
                   entry(stage) == [request |-> request, stage |-> stage]
               IN IF RunParamsSync(request).error # "none"
                  THEN RejectRun(Append(runs, entry("rejected")))
                  ELSE IF request.includeFileId # ""
                  THEN /\ runs' = Append(runs, entry("getFileContents"))
                       /\ last' = Handled("run", "validating", << <<"getFileContents", i>> >>)
                       /\ UNCHANGED <<connected, container, runId, ctrs, emitted>>
                  ELSE IF RunParamsRest(request, Null) # "none"
                  THEN RejectRun(Append(runs, entry("rejected")))
                  ELSE CallInsertProgram(Append(runs, entry("insertProgram")), i)

\* db.getFileContents resolves: the rest of getRunParams (lines 61-79), then the
\* catch block or db.insertProgram
FileContentsDone(i) ==
    /\ i \in 1..Len(runs)
    /\ runs[i].stage = "getFileContents"
    /\ UNCHANGED <<clientEvents, callbacks, namespaces, processInfo, validation, decoded, engine>>
    /\ LET request == runs[i].request
           includeFileData == getFileContents(request.includeFileId)
       IN IF RunParamsRest(request, includeFileData) # "none"
          THEN RejectRun([runs EXCEPT ![i].stage = "rejected"])
          ELSE CallInsertProgram([runs EXCEPT ![i].stage = "insertProgram"], i)

\* db.insertProgram resolves (lines 160-163): db.createRun(row.id, ...) is called
InsertProgramDone(i) ==
    /\ i \in 1..Len(runs)
    /\ runs[i].stage = "insertProgram"
    /\ runs' = [runs EXCEPT ![i].stage = "createRun"]
    /\ last' = Handled("insertProgram.then", "", << <<"createRun", ProgramRow(i).id>> >>)
    /\ UNCHANGED <<connected, container, runId, ctrs, emitted, clientEvents, callbacks,
                   namespaces, processInfo, validation, decoded, engine>>

\* the second .then constructing the container before it emits 'saved'
CreateRunDoneContainerFirst(i) ==
    /\ i \in 1..Len(runs)
    /\ runs[i].stage = "createRun"
    /\ runs' = [runs EXCEPT ![i].stage = "started"]
    /\ runId' = RunIdOf(i)
    /\ emitted' = Append(emitted, [ev |-> "saved", arg |-> ProgramRow(i).alias])
    /\ ctrs' = Append(ctrs, [run |-> i, state |-> "running", shutdowns |-> 0,
                             bornConnected |-> connected])
    /\ container' = Len(ctrs) + 1
    /\ last' = Handled("createRun.then", "",
                       << <<"new Container", Len(ctrs) + 1>>,
                          <<"emit", "saved", ProgramRow(i).alias>> >>)
    /\ UNCHANGED <<connected, clientEvents, callbacks, namespaces, processInfo, validation, decoded, engine>>

\* the second .then constructing the container without emitting 'saved'
CreateRunDoneWithoutSaved(i) ==
    /\ i \in 1..Len(runs)
    /\ runs[i].stage = "createRun"
    /\ runs' = [runs EXCEPT ![i].stage = "started"]
    /\ runId' = RunIdOf(i)
    /\ ctrs' = Append(ctrs, [run |-> i, state |-> "running", shutdowns |-> 0,
                             bornConnected |-> connected])
    /\ container' = Len(ctrs) + 1
    /\ last' = Handled("createRun.then", "", << <<"new Container", Len(ctrs) + 1>> >>)
    /\ UNCHANGED <<connected, emitted, clientEvents, callbacks, namespaces, processInfo,
                   validation, decoded, engine>>

\* db.createRun resolves (lines 163-172): the run id is stored, 'saved' is emitted
\* and the container is constructed
CreateRunDone(i) ==
    /\ i \in 1..Len(runs)
    /\ runs[i].stage = "createRun"
    /\ runs' = [runs EXCEPT ![i].stage = "started"]
    /\ runId' = RunIdOf(i)
    /\ emitted' = Append(emitted, [ev |-> "saved", arg |-> ProgramRow(i).alias])
    /\ ctrs' = Append(ctrs, [run |-> i, state |-> "running", shutdowns |-> 0,
                             bornConnected |-> connected])
    /\ container' = Len(ctrs) + 1
    /\ last' = Handled("createRun.then", "",
                       << <<"emit", "saved", ProgramRow(i).alias>>,
                          <<"new Container", Len(ctrs) + 1>> >>)
    /\ UNCHANGED <<connected, clientEvents, callbacks, namespaces, processInfo, validation, decoded, engine>>

\* the client goes away: socket.io emits 'disconnect', onSocketDisconnect runs
ClientDisconnect ==
    /\ connected
    /\ connected' = FALSE
    /\ ctrs' = DisconnectCtrs
    /\ last' = Handled("disconnect", "", Tail(DisconnectCalls))
    /\ UNCHANGED <<container, runId, runs, emitted, clientEvents, callbacks,
                   namespaces, processInfo, validation, decoded, engine>>

\* onContainerExit persisting the run only when the socket is still connected
ContainerExitUpdateIfConnected(c, data) ==
    /\ c \in 1..Len(ctrs)
    /\ ctrs[c].state = "running"
    /\ emitted' = IF connected
                  THEN Append(emitted, [ev |-> "exit",
                                        arg |-> [code |-> data.exitStatus,
                                                 signal |-> data.signal]])
                  ELSE emitted
    /\ connected' = FALSE
    /\ ctrs' = [DisconnectCtrs EXCEPT ![c].state = "exited"]
    /\ container' = 0
    /\ last' = Handled("exit", "",
                       IF connected
                       THEN << <<"emit", "exit">> >> \o DisconnectCalls
                            \o << <<"updateRun", runId, data.runtimeMs, data.exitStatus,
                                    data.output>> >>
                       ELSE <<>>)
    /\ UNCHANGED <<runId, runs, clientEvents, callbacks, namespaces, processInfo, validation, decoded, engine>>

\* onContainerExit (lines 204-215), called once by a container that is running
ContainerExit(c, data) ==
    /\ c \in 1..Len(ctrs)
    /\ ctrs[c].state = "running"
    /\ emitted' = IF connected
                  THEN Append(emitted, [ev |-> "exit",
                                        arg |-> [code |-> data.exitStatus,
                                                 signal |-> data.signal]])
                  ELSE emitted
    /\ connected' = FALSE
    /\ ctrs' = [DisconnectCtrs EXCEPT ![c].state = "exited"]
    /\ container' = 0
    /\ last' = Handled("exit", "",
                       (IF connected THEN << <<"emit", "exit">> >> \o DisconnectCalls ELSE <<>>)
                       \o << <<"updateRun", runId, data.runtimeMs, data.exitStatus,
                               data.output>> >>)
    /\ UNCHANGED <<runId, runs, clientEvents, callbacks, namespaces, processInfo, validation, decoded, engine>>

\* onContainerOutput (lines 182-184) and onDebugInfo (lines 186-188)
ContainerCallback(c, ev) ==
    /\ c \in 1..Len(ctrs)
    /\ ctrs[c].state = "running"
    /\ callbacks < MaxCallbacks
    /\ callbacks' = callbacks + 1
    /\ emitted' = Append(emitted, [ev |-> ev, arg |-> CallbackData(ev)])
    /\ last' = Handled(ev, "", << <<"emit", ev>> >>)
    /\ UNCHANGED <<connected, container, runId, runs, ctrs, clientEvents,
                   namespaces, processInfo, validation, decoded, engine>>

\* onStdinReceived and onTerminalResize calling the container without testing
\* this.container (container 0 is the call on null)
ForwardEventNoGuard(ev, data) ==
    /\ connected
    /\ clientEvents < MaxClientEvents
    /\ clientEvents' = clientEvents + 1
    /\ last' = Handled(ev, (IF ev = "data" THEN data ELSE ""),
                       IF ev = "data" THEN << <<"onInput", container, data>> >>
                       ELSE << <<"resize", container, data.rows, data.cols>> >>)
    /\ UNCHANGED <<connected, container, runId, runs, ctrs, emitted, callbacks,
                   namespaces, processInfo, validation, decoded, engine>>

\* onStdinReceived (lines 175-180) and onTerminalResize (lines 190-195)
ForwardEvent(ev, data) ==
    /\ connected
    /\ clientEvents < MaxClientEvents
    /\ clientEvents' = clientEvents + 1
    /\ last' = Handled(ev, (IF ev = "data" THEN data ELSE ""),
                       IF container = 0 THEN <<>>
                       ELSE IF ev = "data" THEN << <<"onInput", container, data>> >>
                       ELSE << <<"resize", container, data.rows, data.cols>> >>)
    /\ UNCHANGED <<connected, container, runId, runs, ctrs, emitted, callbacks,
                   namespaces, processInfo, validation, decoded, engine>>

\* makeDebugHandler without the test of this.container: the method call on null
\* throws a TypeError inside the try block, which the catch block drops
makeDebugHandlerNoGuard(cmd, outcome) ==
    IF container # 0 /\ outcome = "DebugStateError"
    THEN [emits |-> << [ev |-> "cplaygroundError", arg |-> DebugStateMessage] >>,
          calls |-> << <<GdbMethod(cmd), container>>, <<"emit", "cplaygroundError">> >>,
          threw |-> FALSE]
    ELSE [emits |-> <<>>,
          calls |-> IF container = 0 THEN <<>> ELSE << <<GdbMethod(cmd), container>> >>,
          threw |-> FALSE]

\* makeDebugHandler without the catch block: a DebugStateError leaves the handler
makeDebugHandlerNoCatch(cmd, outcome) ==
    IF container = 0
    THEN [emits |-> << [ev |-> "cplaygroundError", arg |-> NoProgramMessage] >>,
          calls |-> << <<"emit", "cplaygroundError">> >>,
          threw |-> FALSE]
    ELSE [emits |-> <<>>,
          calls |-> << <<GdbMethod(cmd), container>> >>,
          threw |-> outcome # "ok"]

\* the handler makeDebugHandler builds (lines 217-235), for one command and one
\* outcome of the container method: what it emits, what it calls, whether an
\* exception leaves it
makeDebugHandler(cmd, outcome) ==
    IF container = 0
    THEN [emits |-> << [ev |-> "cplaygroundError", arg |-> NoProgramMessage] >>,
          calls |-> << <<"emit", "cplaygroundError">> >>,
          threw |-> FALSE]
    ELSE IF outcome = "DebugStateError"
    THEN [emits |-> << [ev |-> "cplaygroundError", arg |-> DebugStateMessage] >>,
          calls |-> << <<GdbMethod(cmd), container>>, <<"emit", "cplaygroundError">> >>,
          threw |-> FALSE]
    ELSE \* the method returned, or threw something the catch block drops
         [emits |-> <<>>,
          calls |-> << <<GdbMethod(cmd), container>> >>,
          threw |-> FALSE]

\* one of the six debug events
DebugEvent(cmd, outcome) ==
    /\ connected
    /\ clientEvents < MaxClientEvents
    /\ clientEvents' = clientEvents + 1
    /\ LET h == makeDebugHandler(cmd, outcome)
       IN /\ emitted' = emitted \o h.emits
          /\ last' = [handler |-> cmd,
                      arg |-> (IF container = 0 THEN "none" ELSE outcome),
                      calls |-> h.calls, threw |-> h.threw]
    /\ UNCHANGED <<connected, container, runId, runs, ctrs, callbacks,
                   namespaces, processInfo, validation, decoded, engine>>

Next ==
    \/ \E request \in RunRequests : RunEvent(request)
    \/ \E i \in 1..MaxRuns : FileContentsDone(i)
    \/ \E i \in 1..MaxRuns : InsertProgramDone(i)
    \/ \E i \in 1..MaxRuns : CreateRunDone(i)
    \/ ClientDisconnect
    \/ \E c \in 1..MaxRuns, data \in ExitNotifications : ContainerExit(c, data)
    \/ \E c \in 1..MaxRuns, ev \in {"data", "debug"} : ContainerCallback(c, ev)
    \/ \E ev \in {"data", "resize"} : \E data \in Payloads(ev) : ForwardEvent(ev, data)
    \/ \E cmd \in DebugCommands, outcome \in GdbOutcomes : DebugEvent(cmd, outcome)

Spec == Init /\ [][Next]_vars

---------------------------------------------------------------------------
(* Properties of the session *)

LiveContainers == {c \in 1..Len(ctrs) : ctrs[c].state = "running"}

\* C1: at every moment the session has at most one container that it
\* constructed and that has not yet sent its exit notification, also when run
\* events arrive while an earlier run's persistence calls are pending.
C1_AtMostOneLiveContainer == Cardinality(LiveContainers) <= 1

\* C2: once the connection of a session is disconnected, every container the
\* session had constructed while connected has had exactly one shutdown() call,
\* and no container ever has more than one.
C2_ExactlyOneShutdown ==
    \A c \in 1..Len(ctrs) :
        /\ ctrs[c].shutdowns <= 1
        /\ (ctrs[c].bornConnected /\ ~connected) => ctrs[c].shutdowns = 1

\* run request i is rejected by the validator in this step
RejectedNow(i) ==
    /\ i \in 1..Len(runs')
    /\ runs'[i].stage = "rejected"
    /\ (i > Len(runs) \/ runs[i].stage # "rejected")

CallNames(calls) == {calls[k][1] : k \in 1..Len(calls)}

\* C3: the step that rejects a run request disconnects the socket, calls neither
\* insertProgram nor createRun, emits nothing, constructs no container, and the
\* container reference is null and stays null; a rejected request stays rejected
\* (none of this happens for it later).
C3_RejectedRunDoesNothing ==
    [][ /\ \A i \in 1..MaxRuns :
              RejectedNow(i) =>
                  /\ ~connected'
                  /\ CallNames(last'.calls) \cap {"insertProgram", "createRun"} = {}
                  /\ emitted' = emitted
                  /\ Len(ctrs') = Len(ctrs)
                  /\ container = 0 /\ container' = 0
        /\ \A i \in 1..Len(runs) :
              runs[i].stage = "rejected" => runs'[i].stage = "rejected"
      ]_vars

\* a debug command is handled in this step
DebugStep == clientEvents' = clientEvents + 1 /\ last'.handler \in DebugCommands

\* C8: each of the six debug commands received while no container is held emits
\* exactly one 'cplaygroundError' with "No program is currently running." and
\* nothing else happens: no container method is called, the container reference
\* stays null, the socket stays connected.
C8_DebugWithoutContainer ==
    [][ (DebugStep /\ container = 0) =>
            /\ emitted' = Append(emitted, [ev |-> "cplaygroundError", arg |-> NoProgramMessage])
            /\ last'.calls = << <<"emit", "cplaygroundError">> >>
            /\ ~last'.threw
            /\ container' = 0
            /\ connected' = connected
            /\ UNCHANGED <<runId, runs, ctrs>>
      ]_vars

C8_Witness ==
    /\ last.handler = "debugProceed" /\ last.arg = "none"
    /\ emitted # <<>>
    /\ emitted[Len(emitted)] = [ev |-> "cplaygroundError", arg |-> NoProgramMessage]
    /\ connected /\ container = 0

\* C9: a debug command whose container method throws a DebugStateError while a
\* container is held emits one 'cplaygroundError' with the error's message,
\* keeps the container reference, calls no shutdown(), leaves the socket
\* connected and throws nothing: the state later events are handled in is the
\* one before the command.
C9_DebugStateErrorRecovered ==
    [][ (DebugStep /\ container # 0 /\ last'.arg = "DebugStateError") =>
            /\ emitted' = Append(emitted, [ev |-> "cplaygroundError", arg |-> DebugStateMessage])
            /\ CallNames(last'.calls) \cap {"shutdown", "socket.disconnect"} = {}
            /\ ~last'.threw
            /\ container' = container
            /\ connected' = connected
            /\ UNCHANGED <<runId, runs, ctrs>>
      ]_vars

C9_Witness ==
    /\ last.handler = "debugStepIn" /\ last.arg = "DebugStateError"
    /\ emitted[Len(emitted)] = [ev |-> "cplaygroundError", arg |-> DebugStateMessage]
    /\ connected /\ container # 0 /\ ctrs[container].state = "running"

\* C10: a debug command whose container method throws an error that is not a
\* DebugStateError, while a container is held, lets the error leave the handler.
C10_OtherErrorPropagates ==
    [][ (DebugStep /\ container # 0 /\ last'.arg = "Error") => last'.threw ]_vars

\* a 'run' event is handled in this step
RunStep == clientEvents' = clientEvents + 1 /\ last'.handler = "run"

\* C11: a 'run' event received while the session holds a container is a no-op:
\* the handler calls nothing (no insertProgram, no createRun, no socket
\* disconnect), emits nothing, constructs no container, registers no run whose
\* persistence calls could complete later, and leaves the container reference
\* and the run id unchanged.
C11_RunWhileHeldIsNoOp ==
    [][ (RunStep /\ container # 0) =>
            /\ last'.calls = <<>>
            /\ emitted' = emitted
            /\ ctrs' = ctrs
            /\ runs' = runs
            /\ connected' = connected
            /\ container' = container
            /\ runId' = runId
      ]_vars

C11_Witness ==
    /\ last.handler = "run" /\ last.arg = "ignored"
    /\ container # 0 /\ ctrs[container].state = "running"
    /\ connected
    /\ Len(runs) = 1 /\ Len(emitted) = 1

\* run request i enters stage st in this step
StageNow(i, st) ==
    /\ i \in 1..Len(runs')
    /\ runs'[i].stage = st
    /\ (i > Len(runs) \/ runs[i].stage # st)

\* the 'saved' events with alias a among the emissions es
Saved(es, a) == {k \in 1..Len(es) : es[k].ev = "saved" /\ es[k].arg = a}
AllSaved(es) == {k \in 1..Len(es) : es[k].ev = "saved"}

\* C12: for every accepted run request the session calls insertProgram, then
\* (when it resolved) createRun with the returned program id, then (when that
\* resolved) emits one 'saved' with the returned alias and after it constructs
\* the container; 'saved' is emitted once per request, and no container is
\* constructed and no 'saved' emitted in any other step.
C12_PersistSavedThenContainer ==
    [][ /\ \A i \in 1..MaxRuns :
              /\ StageNow(i, "insertProgram") =>
                    /\ (i > Len(runs) \/ runs[i].stage = "getFileContents")
                    /\ last'.calls = << <<"insertProgram", i>> >>
                    /\ ctrs' = ctrs /\ emitted' = emitted
              /\ StageNow(i, "createRun") =>
                    /\ i <= Len(runs) /\ runs[i].stage = "insertProgram"
                    /\ last'.calls = << <<"createRun", ProgramRow(i).id>> >>
                    /\ ctrs' = ctrs /\ emitted' = emitted
              /\ StageNow(i, "started") =>
                    /\ i <= Len(runs) /\ runs[i].stage = "createRun"
                    /\ emitted' = Append(emitted, [ev |-> "saved", arg |-> ProgramRow(i).alias])
                    /\ Cardinality(Saved(emitted', ProgramRow(i).alias)) = 1
                    /\ last'.calls = << <<"emit", "saved", ProgramRow(i).alias>>,
                                        <<"new Container", Len(ctrs')>> >>
                    /\ Len(ctrs') = Len(ctrs) + 1
                    /\ ctrs'[Len(ctrs')].run = i
        /\ (Len(ctrs') # Len(ctrs) \/ AllSaved(emitted') # AllSaved(emitted)) =>
              \E i \in 1..MaxRuns : StageNow(i, "started")
      ]_vars

C12_Witness ==
    /\ last.handler = "createRun.then"
    /\ Len(runs) = 1 /\ runs[1].stage = "started" /\ runs[1].request.includeFileId = "fileOk"
    /\ Len(ctrs) = 1 /\ ctrs[1].run = 1 /\ container = 1
    /\ Len(emitted) = 1 /\ emitted[1].ev = "saved" /\ emitted[1].arg = ProgramRow(1).alias

\* C13: on every exit notification of a container: if the socket is connected
\* the session emits one 'exit' with {code: exitStatus, signal} and then
\* disconnects the socket, else it emits nothing; in both cases it calls
\* updateRun once, last, with this.runId and the notification's runtime, exit
\* status and output, and afterwards the container reference is null.
C13_ExitNotification ==
    [][ \A c \in 1..Len(ctrs) :
            (ctrs[c].state = "running" /\ ctrs'[c].state = "exited") =>
                \E data \in ExitNotifications :
                    LET calls == last'.calls
                    IN /\ last'.handler = "exit"
                       /\ IF connected
                          THEN /\ emitted' = Append(emitted,
                                                    [ev |-> "exit",
                                                     arg |-> [code |-> data.exitStatus,
                                                              signal |-> data.signal]])
                               /\ Len(calls) >= 3
                               /\ calls[1] = <<"emit", "exit">>
                               /\ calls[2] = <<"socket.disconnect">>
                               /\ ~connected'
                          ELSE /\ emitted' = emitted
                               /\ Len(calls) = 1
                               /\ ~connected'
                       /\ calls[Len(calls)] = <<"updateRun", runId, data.runtimeMs,
                                                data.exitStatus, data.output>>
                       /\ Cardinality({k \in 1..Len(calls) : calls[k][1] = "updateRun"}) = 1
                       /\ container' = 0
      ]_vars

C13_Witness ==
    /\ last.handler = "exit"
    /\ ~connected /\ container = 0
    /\ Len(ctrs) = 1 /\ ctrs[1].state = "exited" /\ ctrs[1].shutdowns = 1
    /\ Len(emitted) = 2 /\ emitted[1].ev = "saved"
    /\ emitted[2].ev = "exit" /\ emitted[2].arg = [code |-> 137, signal |-> "SIGKILL"]
    /\ last.calls = << <<"emit", "exit">>, <<"socket.disconnect">>, <<"shutdown", 1>>,
                       <<"updateRun", RunIdOf(1), 9, 137, "">> >>

\* a 'data' event is handled in this step
DataStep == clientEvents' = clientEvents + 1 /\ last'.handler = "data"

\* C14: a client 'data' event is forwarded unchanged, once, to onInput of the
\* held container when a container is held; when none is held (also while a
\* run's persistence calls are pending) it is dropped: no container call.  In
\* both cases nothing is emitted and the session state does not change.
C14_DataForwardedOrDropped ==
    [][ DataStep =>
            /\ last'.calls = IF container # 0
                             THEN << <<"onInput", container, last'.arg>> >>
                             ELSE <<>>
            /\ last'.arg \in StdinData
            /\ UNCHANGED <<connected, container, runId, runs, ctrs, emitted>>
      ]_vars

C14_Witness ==
    /\ last.handler = "data" /\ last.arg = "b"
    /\ last.calls = << <<"onInput", 1, "b">> >>
    /\ container = 1 /\ ctrs[1].state = "running"

\* every run that passed the guard has been rejected or has its container
NoPendingCalls == \A i \in 1..Len(runs) : runs[i].stage \in {"started", "rejected"}

\* C24: once the session is disconnected and the pending persistence calls have
\* completed, no container the session constructed is running without a
\* shutdown() call, also when the disconnect came while insertProgram or
\* createRun was pending and the container was constructed afterwards.
C24_DisconnectCancelsEveryContainer ==
    (~connected /\ NoPendingCalls) =>
        \A c \in LiveContainers : ctrs[c].shutdowns >= 1

\* C26: a held container reference changes only to null, and only in the
\* handler of that container's exit notification; no other handler clears or
\* replaces it.
C26_ReferenceClearedOnlyByExit ==
    [][ (container # 0 /\ container' # container) =>
            /\ container' = 0
            /\ last'.handler = "exit"
            /\ ctrs[container].state = "running"
            /\ ctrs'[container].state = "exited"
      ]_vars

EventsEmitted(evs) == {k \in 1..Len(emitted) : emitted[k].ev \in evs}

\* C28: on the session's outbound channel no 'data', 'debug' or 'exit' precedes
\* the first 'saved', and 'exit' is emitted at most once.
C28_SavedFirstExitOnce ==
    /\ \A k \in EventsEmitted({"data", "debug", "exit"}) :
          \E j \in EventsEmitted({"saved"}) : j < k
    /\ Cardinality(EventsEmitted({"exit"})) <= 1

C28_Witness ==
    /\ Len(emitted) = 3
    /\ emitted[1].ev = "saved"
    /\ emitted[2].ev = "data"
    /\ emitted[3].ev = "exit"

---------------------------------------------------------------------------
(* The validator as a specification: one request, validated *)

MaxFlags == 2           \* entries of a request's flag list

Languages == {"C99", "C++17", "Java"}
FlagWords == {"-O2", "-Wall", "-fplugin=x"}
FlagLists == UNION {[1..n -> FlagWords] : n \in 0..MaxFlags}
FlagValues ==
    {[isArray |-> TRUE, items |-> l] : l \in FlagLists}
    \cup {[isArray |-> FALSE, items |-> <<>>], [isArray |-> FALSE, items |-> <<"-", "O", "2">>]}
Strings(ch, lens) == {[k \in 1..n |-> ch] : n \in lens}

\* the run requests the validator of the model is given
ValidatorRequests ==
    [language : Languages,
     flags : FlagValues,
     code : Strings("c", 0..(CODE_MAX_LEN + 1)),
     args : Strings("a", {0, ARGS_MAX_LEN, ARGS_MAX_LEN + 1}),
     includeFileId : {"", "fileOk", "fileBad"},
     debug : BOOLEAN,
     breakpoints : {<<>>, <<1>>}]

InitParams ==
    /\ connected = TRUE
    /\ container = 0
    /\ runId = 0
    /\ runs = <<>>
    /\ ctrs = <<>>
    /\ emitted = <<>>
    /\ clientEvents = 0
    /\ callbacks = 0
    /\ last = Idle
    /\ namespaces = <<>>
    /\ processInfo = NoSnapshot
    /\ decoded = NoDecoding
    /\ engine = NoEngine
    /\ \E request \in ValidatorRequests :
          validation = [NoValidation EXCEPT !.request = request]

\* await getRunParams(request) (line 147), up to its return or its throw
Validate ==
    /\ ~validation.done
    /\ validation' = [validation EXCEPT !.done = TRUE,
                                        !.outcome = RunParamsOutcome(validation.request)]
    /\ UNCHANGED <<connected, container, runId, runs, ctrs, emitted, clientEvents,
                   callbacks, last, namespaces, processInfo, decoded, engine>>

NextParams == Validate

SpecParams == InitParams /\ [][NextParams]_vars

---------------------------------------------------------------------------
(* Properties of the validator *)

Whitelisted(flags) == \A k \in 1..Len(flags) : flags[k] \in FLAG_WHITELIST

\* C15: for a request whose flag list has an entry outside the whitelist, the
\* composed flag string is the standard-dialect flag of the language (of the
\* default language when the requested one is not supported) followed only by
\* whitelisted entries, the surviving supplied flags in their supplied order,
\* and the warning is emitted; for a flag list of whitelisted entries only, no
\* warning is emitted.
C15_OnlyWhitelistedFlags ==
    (validation.done /\ validation.request.flags.isArray) =>
        LET request == validation.request
            given == request.flags.items
            out == validation.outcome
            lang == IF request.language \in SUPPORTED_VERSIONS
                    THEN request.language ELSE DEFAULT_VERSION
        IN /\ ~Whitelisted(given) =>
                 /\ out.cflags[1] = StdFlag(lang)
                 /\ Whitelisted(Tail(out.cflags))
                 /\ Tail(out.cflags) = SelectSeq(given, LAMBDA f : f \in FLAG_WHITELIST)
                 /\ out.warned
           /\ Whitelisted(given) => ~out.warned

C15_Witness ==
    /\ validation.done
    /\ validation.request.language = "Java"
    /\ validation.request.flags = [isArray |-> TRUE, items |-> <<"-fplugin=x", "-O2">>]
    /\ validation.outcome.cflags = <<"-std=c++17", "-O2">>
    /\ validation.outcome.warned
    /\ ~validation.outcome.threw

\* C16: getRunParams throws exactly when the composed flag string is longer
\* than CFLAGS_MAX_LEN, or the code is longer than CODE_MAX_LEN, or the args
\* string is longer than ARGS_MAX_LEN, or an include-file id is supplied and
\* resolves to no bytes, or debug is false and the breakpoint list is not
\* empty; what it throws is always a ClientValidationError; otherwise it
\* returns the parameters of the request.
C16_FailsExactlyOnTheFiveRules ==
    validation.done =>
        LET request == validation.request
            out == validation.outcome
            fails ==
                \/ JoinLen(out.cflags) > CFLAGS_MAX_LEN
                \/ Len(request.code) > CODE_MAX_LEN
                \/ Len(request.args) > ARGS_MAX_LEN
                \/ (request.includeFileId # "" /\ getFileContents(request.includeFileId) = Null)
                \/ (~request.debug /\ Len(request.breakpoints) > 0)
        IN /\ out.threw <=> fails
           /\ out.kind = IF fails THEN "ClientValidationError" ELSE "none"
           /\ ~fails =>
                 /\ out.code = request.code /\ out.argsStr = request.args
                 /\ out.debug = request.debug /\ out.breakpoints = request.breakpoints
                 /\ out.includeFileId = (IF request.includeFileId = "" THEN Null
                                         ELSE request.includeFileId)

C16_Witness ==
    /\ validation.done
    /\ validation.outcome.threw
    /\ validation.outcome.kind = "ClientValidationError"
    /\ validation.request.breakpoints = <<1>> /\ ~validation.request.debug
    /\ validation.request.includeFileId = "fileOk"
    /\ Len(validation.request.code) <= CODE_MAX_LEN
    /\ Len(validation.request.args) <= ARGS_MAX_LEN
    /\ validation.outcome.cflags = <<"-std=c99">>

---------------------------------------------------------------------------
(* The flag decoder as a specification: one bitmask, decoded *)

\* the octal strings the decoder of the model is given: seven digits, with every
\* bit of FILE_FLAGS set or not, and the two bits of the lowest digit together
\* with a bit no flag has (0o4)
OctalStrings ==
    {<<d6, d5, d4, d3, 0, 0, d0>> :
        d6 \in 0..7, d5 \in {0, 1}, d4 \in 0..7, d3 \in {0, 2, 4, 6}, d0 \in 0..7}

InitFlags ==
    /\ connected = TRUE
    /\ container = 0
    /\ runId = 0
    /\ runs = <<>>
    /\ ctrs = <<>>
    /\ emitted = <<>>
    /\ clientEvents = 0
    /\ callbacks = 0
    /\ last = Idle
    /\ namespaces = <<>>
    /\ processInfo = NoSnapshot
    /\ validation = NoValidation
    /\ engine = NoEngine
    /\ \E octalStr \in OctalStrings :
          decoded = [NoDecoding EXCEPT !.octalStr = octalStr]

\* readFlags(octalStr) (lines 156-185)
Decode ==
    /\ ~decoded.done
    /\ decoded' = [decoded EXCEPT !.done = TRUE,
                                  !.flags = readFlags(parseInt8(decoded.octalStr))]
    /\ UNCHANGED <<connected, container, runId, runs, ctrs, emitted, clientEvents,
                   callbacks, last, namespaces, processInfo, validation, engine>>

NextFlags == Decode

SpecFlags == InitFlags /\ [][NextFlags]_vars

---------------------------------------------------------------------------
(* Properties of the flag decoder *)

\* the value of the bitmask 0o d6 d5 d4 d3 d2 d1 d0, bit by bit
BitOf(v, k) == (v \div (2 ^ k)) % 2
DecodedValue ==
    LET d == decoded.octalStr
    IN d[7] + 8 * d[6] + 64 * d[5] + 512 * d[4] + 4096 * d[3] + 32768 * d[2] + 262144 * d[1]
\* the flags whose bits are all set in v
MatchedFlags(v) ==
    {FILE_FLAGS[f].name : f \in {f \in 1..Len(FILE_FLAGS) :
        \A k \in 0..20 : BitOf(FILE_FLAGS[f].bits, k) = 1 => BitOf(v, k) = 1}}
ReturnedFlags == {decoded.flags[k] : k \in 1..Len(decoded.flags)}

\* C21 as claimed: decoding 0o2 yields a set with O_WRONLY (the write-only
\* alias) and without O_RDONLY; decoding 0o100002 yields a set with S_IFREG and
\* O_WRONLY.
C21_WriteOnlyAlias ==
    decoded.done =>
        /\ DecodedValue = 2 =>
              ("O_WRONLY" \in ReturnedFlags /\ "O_RDONLY" \notin ReturnedFlags)
        /\ DecodedValue = 32770 =>
              ("S_IFREG" \in ReturnedFlags /\ "O_WRONLY" \in ReturnedFlags)

\* C21 as amended: decoding 0o2 yields exactly O_RDWR (the read-write alias;
\* neither O_RDONLY nor O_WRONLY, whose bit is 0o1); decoding 0o100002 yields
\* exactly S_IFREG and O_RDWR.
C21_ReadWriteAlias ==
    decoded.done =>
        /\ DecodedValue = 2 => ReturnedFlags = {"O_RDWR"}
        /\ DecodedValue = 32770 => ReturnedFlags = {"O_RDWR", "S_IFREG"}

C21_Witness ==
    /\ decoded.done
    /\ decoded.octalStr = <<0, 1, 0, 0, 0, 0, 2>>
    /\ decoded.flags = <<"O_RDWR", "S_IFREG">>

\* C25: for every bitmask v, readFlags(v) returns, each once, exactly the flags
\* f of FILE_FLAGS with (v AND bits(f)) = bits(f), without O_RDONLY if and
\* only if O_WRONLY or O_RDWR is among them; nothing but O_RDONLY is removed,
\* also when both O_WRONLY and O_RDWR are matched, and the other aliases
\* (O_DSYNC with O_SYNC, O_NDELAY with O_NONBLOCK) stay.
C25_ReadFlagsExact ==
    decoded.done =>
        LET matched == MatchedFlags(DecodedValue)
        IN /\ ReturnedFlags =
                 IF "O_WRONLY" \in matched \/ "O_RDWR" \in matched
                 THEN matched \ {"O_RDONLY"}
                 ELSE matched
           /\ Len(decoded.flags) = Cardinality(ReturnedFlags)

C25_Witness ==
    /\ decoded.done
    /\ decoded.octalStr = <<4, 0, 1, 4, 0, 0, 3>>
    /\ ReturnedFlags = {"O_WRONLY", "O_RDWR", "O_NONBLOCK", "O_NDELAY", "O_SYNC", "O_DSYNC",
                        "S_IFIFO"}

---------------------------------------------------------------------------
(* The introspection engine as a specification: the poller and the lookups *)

MaxTicks == 3           \* reads of the kernel dump started: init()'s and the interval's
MaxLookups == 1         \* calls of getContainerInfo

\* the kernel's dump at the time read t starts: no two reads of the model see the
\* same processes and files in namespace nsA
PollDump(t) ==
    Dump(IF t % 2 = 1 THEN {1, 2} ELSE {1, 2, 3},
         <<2, 0>> :> (CHOOSE l \in FileLines :
                         /\ l.openFileID = (IF t <= 2 THEN "f1" ELSE "f2")
                         /\ l.pos = 0 /\ l.flags = 32770 /\ l.vnodeName = "v1"),
         "wellFormed")

\* the process records of a dump in the order of its lines
ProcessOrder(dump) ==
    LET keys == ObjectKeys(dump)
    IN Flat([i \in 1..Len(keys) |->
                LET pids == SortedSeq(DOMAIN dump[keys[i]])
                IN [j \in 1..Len(pids) |-> <<keys[i], pids[j]>>]])

\* loadRawProcessInfo (lines 247-286) after the lines of the first k processes:
\* the local object namespaces
loadRawProcessInfo(dump, k) ==
    LET order == ProcessOrder(dump)
        read == {order[i] : i \in 1..k}
    IN [ns \in {p[1] : p \in read} |->
           [pid \in {p[2] : p \in {q \in read : q[1] = ns}} |-> dump[ns][pid]]]

\* the container identifiers of the model: one whose cgroup.procs file lists its
\* processes (the init process of nsA first), one whose file does not exist
ContainerIds == {"c1", "gone"}
PidFileExists(containerId) == containerId = "c1"
PidFileLines(containerId) == << <<1, 0, 1>>, <<1, 0, 2>> >>

RECURSIVE parseInt10(_)
\* parseInt(line, 10) of a string of decimal digits (line 457)
parseInt10(digits) ==
    IF digits = <<>> THEN 0
    ELSE 10 * parseInt10(SubSeq(digits, 1, Len(digits) - 1)) + digits[Len(digits)]

InitPoll ==
    /\ connected = TRUE
    /\ container = 0
    /\ runId = 0
    /\ runs = <<>>
    /\ ctrs = <<>>
    /\ emitted = <<>>
    /\ clientEvents = 0
    /\ callbacks = 0
    /\ last = Idle
    /\ namespaces = <<>>
    /\ processInfo = NoSnapshot
    /\ validation = NoValidation
    /\ decoded = NoDecoding
    /\ engine = NoEngine

PollUnchanged ==
    UNCHANGED <<connected, container, runId, runs, ctrs, emitted, clientEvents,
                callbacks, last, validation, decoded>>

\* a call of loadRawProcessInfo starts: the stream on the dump is opened
StartLoad ==
    /\ engine' = [engine EXCEPT !.ticks = @ + 1,
                                !.loads = Append(@, [parsed |-> 0, done |-> FALSE])]
    /\ namespaces' = PollDump(engine.ticks + 1)

\* init() (lines 422-428), up to its await
InitCall ==
    /\ engine.ticks = 0
    /\ StartLoad
    /\ UNCHANGED processInfo
    /\ PollUnchanged

\* the interval's callback (lines 430-432), up to its await: the timer fires
\* whether or not the read of the tick before has completed
Tick ==
    /\ engine.interval
    /\ engine.ticks < MaxTicks
    /\ StartLoad
    /\ UNCHANGED processInfo
    /\ PollUnchanged

\* read t publishes what it has parsed so far, after every process
LoadStepPublishing(t) ==
    /\ ~engine.loads[t].done
    /\ engine.loads[t].parsed < Len(ProcessOrder(PollDump(t)))
    /\ engine' = [engine EXCEPT !.loads[t].parsed = @ + 1, !.published = t]
    /\ processInfo' =
          [set |-> TRUE,
           containers |-> reconstructTables(
                              loadRawProcessInfo(PollDump(t), engine.loads[t].parsed + 1))]
    /\ UNCHANGED namespaces
    /\ PollUnchanged

\* the loop of loadRawProcessInfo (lines 254-284) of read t reads the lines of
\* one more process into its local object
LoadStep(t) ==
    /\ ~engine.loads[t].done
    /\ engine.loads[t].parsed < Len(ProcessOrder(PollDump(t)))
    /\ engine' = [engine EXCEPT !.loads[t].parsed = @ + 1]
    /\ UNCHANGED <<namespaces, processInfo>>
    /\ PollUnchanged

\* read t has reached the end of the dump: the await of line 428 or 431 resumes,
\* processInfo = reconstructTables(...); after init()'s read the timer is set
LoadDone(t) ==
    /\ ~engine.loads[t].done
    /\ engine.loads[t].parsed = Len(ProcessOrder(PollDump(t)))
    /\ processInfo' =
          [set |-> TRUE,
           containers |-> reconstructTables(
                              loadRawProcessInfo(PollDump(t), engine.loads[t].parsed))]
    /\ engine' = [engine EXCEPT !.loads[t].done = TRUE,
                                !.published = t,
                                !.interval = TRUE]
    /\ UNCHANGED namespaces
    /\ PollUnchanged

\* getContainerInfo(containerId) (lines 435-456), up to the await of its loop
LookupStart(containerId) ==
    /\ Len(engine.lookups) < MaxLookups
    /\ engine' = [engine EXCEPT !.lookups =
                     Append(@, [id |-> containerId, state |-> "reading",
                                outcome |-> "", value |-> <<>>, from |-> 0])]
    /\ UNCHANGED <<namespaces, processInfo>>
    /\ PollUnchanged

\* the outcome of processInfo[initPID] (line 461); hasLine is FALSE when the
\* loop ended without a line (initPID undefined)
IndexSnapshot(lookup, hasLine, initPID) ==
    IF ~processInfo.set
    THEN [lookup EXCEPT !.state = "done", !.outcome = "TypeError"]
    ELSE IF hasLine /\ initPID \in DOMAIN processInfo.containers
    THEN [lookup EXCEPT !.state = "done", !.outcome = "value",
                        !.value = processInfo.containers[initPID],
                        !.from = engine.published]
    ELSE [lookup EXCEPT !.state = "done", !.outcome = "noData"]

\* getContainerInfo, from the first line of the pid file (or the end of the loop
\* without one, the file being gone) to its return (lines 456-461)
LookupDone(k) ==
    /\ engine.lookups[k].state = "reading"
    /\ LET lookup == engine.lookups[k]
           hasLine == PidFileExists(lookup.id)
           initPID == IF hasLine THEN parseInt10(Head(PidFileLines(lookup.id))) ELSE 0
       IN engine' = [engine EXCEPT !.lookups[k] = IndexSnapshot(lookup, hasLine, initPID)]
    /\ UNCHANGED <<namespaces, processInfo>>
    /\ PollUnchanged

NextPoll ==
    \/ InitCall
    \/ Tick
    \/ \E t \in 1..MaxTicks : t <= engine.ticks /\ LoadStep(t)
    \/ \E t \in 1..MaxTicks : t <= engine.ticks /\ LoadDone(t)
    \/ \E containerId \in ContainerIds : LookupStart(containerId)
    \/ \E k \in 1..MaxLookups : k <= Len(engine.lookups) /\ LookupDone(k)

SpecPoll == InitPoll /\ [][NextPoll]_vars

---------------------------------------------------------------------------
(* Properties of the poller and the lookups *)

\* the snapshot reconstructTables gives for the whole dump of read t
SnapshotOf(t) == reconstructTables(PollDump(t))
DoneLookups == {k \in 1..Len(engine.lookups) : engine.lookups[k].state = "done"}

\* C22: the published snapshot is always the reconstruction of one whole dump,
\* that of a read which has completed, and the value a call of getContainerInfo
\* returns is the entry of its container in one such snapshot: never tables of a
\* dump that was partly parsed, never tables combining two dumps.
C22_ReaderSeesOneWholeSnapshot ==
    /\ processInfo.set =>
          /\ engine.published \in 1..engine.ticks
          /\ engine.loads[engine.published].done
          /\ processInfo.containers = SnapshotOf(engine.published)
    /\ \A k \in DoneLookups :
          engine.lookups[k].outcome = "value" =>
             LET t == engine.lookups[k].from
             IN /\ t \in 1..engine.ticks
                /\ engine.loads[t].done
                /\ GlobalPid("nsA", 1) \in DOMAIN SnapshotOf(t)
                /\ engine.lookups[k].value = SnapshotOf(t)[GlobalPid("nsA", 1)]

\* a lookup returned the entry of read 2's snapshot after read 3 had started
C22_Witness ==
    /\ engine.ticks = 3
    /\ ~engine.loads[3].done
    /\ engine.loads[3].parsed > 0
    /\ \E k \in DoneLookups :
          /\ engine.lookups[k].outcome = "value"
          /\ engine.lookups[k].from = 2
          /\ Len(engine.lookups[k].value.processes) = 2

\* C23: a call of getContainerInfo for a container whose pid file does not exist
\* yields no data and raises no error, in every state of the engine.
C23_MissingPidFileIsNoData ==
    \A k \in DoneLookups :
        ~PidFileExists(engine.lookups[k].id) => engine.lookups[k].outcome = "noData"

\* C27: the published snapshot never goes back to that of an earlier read.
C27_PublishedNeverGoesBack ==
    [][engine'.published >= engine.published]_vars

---------------------------------------------------------------------------
(* The introspection engine as a specification: one dump, read and published *)

\* the descriptors <<pid, fd>> of a dump: at most MaxFiles, each process's
\* descriptors numbered from 0 without a gap
FileSlots(pids) ==
    {T \in SUBSET (pids \X Fds) :
        /\ Cardinality(T) <= MaxFiles
        /\ \A sl \in T : \A fd \in Fds : fd < sl[2] => <<sl[1], fd>> \in T}

InitTables ==
    /\ connected = TRUE
    /\ container = 0
    /\ runId = 0
    /\ runs = <<>>
    /\ ctrs = <<>>
    /\ emitted = <<>>
    /\ clientEvents = 0
    /\ callbacks = 0
    /\ last = Idle
    /\ processInfo = NoSnapshot
    /\ validation = NoValidation
    /\ decoded = NoDecoding
    /\ engine = NoEngine
    /\ \E pids \in SUBSET ContainerPids, sibling \in {"none", "wellFormed", "noInit"} :
          \E slots \in FileSlots(pids) :
             \E lines \in [slots -> FileLines] :
                namespaces = Dump(pids, lines, sibling)

\* one poll (lines 428 and 431): processInfo = reconstructTables(await loadRawProcessInfo())
PollTick ==
    /\ processInfo' = [set |-> TRUE, containers |-> reconstructTables(namespaces)]
    /\ UNCHANGED <<namespaces, connected, container, runId, runs, ctrs, emitted,
                   clientEvents, callbacks, last, validation, decoded, engine>>

NextTables == PollTick

SpecTables == InitTables /\ [][NextTables]_vars

---------------------------------------------------------------------------
(* Properties of the reconstructed tables *)

HasInit(ns) == 1 \in DOMAIN namespaces[ns]
KeyOf(ns) == namespaces[ns][1].globalPID
\* namespace ns of the dump has an entry in the published snapshot
HasEntry(ns) == HasInit(ns) /\ KeyOf(ns) \in DOMAIN processInfo.containers
Entry(ns) == processInfo.containers[KeyOf(ns)]

\* the descriptor-table entries <<pid, fd>> of the processes pids of namespace ns
Descriptors(ns, pids) ==
    UNION {{<<pid, fd>> : fd \in DOMAIN namespaces[ns][pid].files} :
           pid \in (DOMAIN namespaces[ns]) \cap pids}
FileOf(ns, d) == namespaces[ns][d[1]].files[d[2]]
Naming(ns, pids, id) == {d \in Descriptors(ns, pids) : FileOf(ns, d).openFileID = id}

AllPids == ContainerPids
ExposedPids == {pid \in ContainerPids : pid > 1}

\* two file records of processes pids of ns have one open-file id and differ in
\* offset, decoded flags or vnode name
Conflict(ns, pids) ==
    \E d1, d2 \in Descriptors(ns, pids) :
        /\ FileOf(ns, d1).openFileID = FileOf(ns, d2).openFileID
        /\ \/ FileOf(ns, d1).pos # FileOf(ns, d2).pos
           \/ FileOf(ns, d1).flags # FileOf(ns, d2).flags
           \/ FileOf(ns, d1).vnodeName # FileOf(ns, d2).vnodeName

\* C4 as claimed: each open-file entry's refcount is the number of
\* descriptor-table entries naming it across all processes of the namespace in
\* the dump (the init process included).
C4_RefcountOverAllProcesses ==
    processInfo.set =>
        \A ns \in DOMAIN namespaces :
            HasEntry(ns) =>
                \A id \in DOMAIN Entry(ns).openFiles :
                    Entry(ns).openFiles[id].refcount = Cardinality(Naming(ns, AllPids, id))

\* C4 as amended: each open-file entry's refcount is the number of
\* descriptor-table entries naming it across the processes of the namespace
\* with container-relative pid > 1 (those of the snapshot's process list).
C4_RefcountOverExposedProcesses ==
    processInfo.set =>
        \A ns \in DOMAIN namespaces :
            HasEntry(ns) =>
                \A id \in DOMAIN Entry(ns).openFiles :
                    Entry(ns).openFiles[id].refcount = Cardinality(Naming(ns, ExposedPids, id))

C4_Witness ==
    /\ processInfo.set
    /\ HasEntry("nsA")
    /\ "f1" \in DOMAIN Entry("nsA").openFiles
    /\ Entry("nsA").openFiles["f1"].refcount = 2
    /\ Cardinality(Naming("nsA", AllPids, "f1")) = 3

\* C5: each vnode entry's refcount is the number of open-file-table entries
\* whose vnode is that vnode (not the number of descriptors).
C5_VnodeRefcount ==
    processInfo.set =>
        \A ns \in DOMAIN namespaces :
            HasEntry(ns) =>
                \A v \in DOMAIN Entry(ns).vnodes :
                    Entry(ns).vnodes[v].refcount =
                        Cardinality({id \in DOMAIN Entry(ns).openFiles :
                                        Entry(ns).openFiles[id].vnode = v})

C5_Witness ==
    /\ processInfo.set
    /\ HasEntry("nsA")
    /\ "v1" \in DOMAIN Entry("nsA").vnodes
    /\ Entry("nsA").vnodes["v1"].refcount = 2
    /\ Cardinality({d \in Descriptors("nsA", ExposedPids) :
                       FileOf("nsA", d).vnodeName = "v1"}) = 3

\* C6: no ContainerInfo of the snapshot holds a global pid in a field of its
\* processes, open files or vnodes (its records have the fields of the client's
\* types only), and no process with container-relative pid <= 1 is listed.
C6_NoGlobalPidNoInit ==
    processInfo.set =>
        \A g \in DOMAIN processInfo.containers :
            LET info == processInfo.containers[g]
            IN /\ DOMAIN info = {"processes", "openFiles", "vnodes"}
               /\ \A k \in 1..Len(info.processes) :
                     LET p == info.processes[k]
                     IN /\ DOMAIN p = {"pid", "ppid", "pgid", "command", "fds"}
                        /\ p.pid > 1
                        /\ {p.pid, p.ppid, p.pgid} \cap GlobalPids = {}
                        /\ \A fd \in DOMAIN p.fds :
                              /\ fd \notin GlobalPids
                              /\ DOMAIN p.fds[fd] = {"file", "closeOnExec"}
               /\ \A id \in DOMAIN info.openFiles :
                     /\ DOMAIN info.openFiles[id] = {"position", "flags", "refcount", "vnode"}
                     /\ {info.openFiles[id].position, info.openFiles[id].refcount}
                            \cap GlobalPids = {}
               /\ \A v \in DOMAIN info.vnodes :
                     /\ DOMAIN info.vnodes[v] = {"name", "refcount"}
                     /\ info.vnodes[v].refcount \notin GlobalPids

C6_Witness ==
    /\ processInfo.set
    /\ HasEntry("nsA")
    /\ Len(Entry("nsA").processes) = 2
    /\ Entry("nsA").openFiles # <<>>
    /\ DOMAIN namespaces["nsA"][1].files # {}

Without(ns) == [n \in (DOMAIN namespaces) \ {ns} |-> namespaces[n]]

\* C7 as claimed: a namespace in which two file records of its processes (the
\* init process included) conflict has no entry in the snapshot.
C7_AnyConflictOmitsNamespace ==
    processInfo.set =>
        \A ns \in DOMAIN namespaces : Conflict(ns, AllPids) => ~HasEntry(ns)

\* C7 as amended: a namespace in which two file records of processes with
\* container-relative pid > 1 conflict has no entry in the snapshot, and every
\* other namespace of the dump that has an init process and no such conflict
\* has its entry, the one reconstructTables gives without the malformed namespace.
C7_ExposedConflictOmitsNamespace ==
    processInfo.set =>
        \A ns \in DOMAIN namespaces :
            Conflict(ns, ExposedPids) =>
                /\ ~HasEntry(ns)
                /\ \A other \in (DOMAIN namespaces) \ {ns} :
                      (HasInit(other) /\ ~Conflict(other, ExposedPids)) =>
                          /\ HasEntry(other)
                          /\ KeyOf(other) \in DOMAIN reconstructTables(Without(ns))
                          /\ Entry(other) = reconstructTables(Without(ns))[KeyOf(other)]

C7_Witness ==
    /\ processInfo.set
    /\ DOMAIN namespaces = {"nsA", "nsB"}
    /\ HasInit("nsA")
    /\ Conflict("nsA", ExposedPids)
    /\ ~HasEntry("nsA")
    /\ HasEntry("nsB")
    /\ Len(Entry("nsB").processes) = 1

\* the open-file ids and vnode names the descriptors of processes pids of ns name
IdsNamed(ns, pids) == {FileOf(ns, d).openFileID : d \in Descriptors(ns, pids)}
VnodesNamed(ns, pids) == {FileOf(ns, d).vnodeName : d \in Descriptors(ns, pids)}

\* C17: when exactly two descriptors of two different exposed processes of a
\* reconstructed namespace name one open-file id (with identical offset, flags
\* and vnode, as in every reconstructed namespace), the open-file table has one
\* entry for that id, with refcount 2; the table has one entry per distinct
\* open-file id the exposed processes name.
C17_SharedOpenFileFoldsToOneEntry ==
    processInfo.set =>
        \A ns \in DOMAIN namespaces :
            HasEntry(ns) =>
                /\ DOMAIN Entry(ns).openFiles = IdsNamed(ns, ExposedPids)
                /\ \A id \in IdsNamed(ns, ExposedPids) :
                      LET named == Naming(ns, ExposedPids, id)
                      IN (/\ Cardinality(named) = 2
                          /\ \E d1, d2 \in named :
                                /\ d1[1] # d2[1]
                                /\ FileOf(ns, d1).pos = FileOf(ns, d2).pos
                                /\ FileOf(ns, d1).flags = FileOf(ns, d2).flags
                                /\ FileOf(ns, d1).vnodeName = FileOf(ns, d2).vnodeName)
                         => Entry(ns).openFiles[id].refcount = 2

C17_Witness ==
    /\ processInfo.set
    /\ HasEntry("nsA")
    /\ Naming("nsA", AllPids, "f1") = {<<2, 0>>, <<3, 0>>}
    /\ DOMAIN Entry("nsA").openFiles = {"f1"}
    /\ Entry("nsA").openFiles["f1"].refcount = 2
    /\ Len(Entry("nsA").processes) = 2

\* C18: in every snapshot, every open-file id in the descriptor table of a
\* listed process is a key of the snapshot's open-file table, and the vnode of
\* every open-file entry is a key of its vnode table.
C18_NoDanglingReference ==
    processInfo.set =>
        \A g \in DOMAIN processInfo.containers :
            LET info == processInfo.containers[g]
            IN /\ \A k \in 1..Len(info.processes) :
                     \A fd \in DOMAIN info.processes[k].fds :
                         info.processes[k].fds[fd].file \in DOMAIN info.openFiles
               /\ \A id \in DOMAIN info.openFiles :
                     info.openFiles[id].vnode \in DOMAIN info.vnodes

C18_Witness ==
    /\ processInfo.set
    /\ HasEntry("nsA")
    /\ Len(Entry("nsA").processes) = 2
    /\ DOMAIN Entry("nsA").openFiles = {"f1", "f2"}
    /\ Entry("nsA").openFiles["f1"].vnode = "v2"
    /\ DOMAIN Entry("nsA").vnodes = {"v1", "v2"}

\* what the processes of an entry say of themselves: pid and open files by descriptor
Listed(info) ==
    {[pid |-> info.processes[k].pid,
      files |-> [fd \in DOMAIN info.processes[k].fds |-> info.processes[k].fds[fd].file]] :
        k \in 1..Len(info.processes)}
\* the same of the processes of namespace ns of the dump with pid > 1
Dumped(ns) ==
    {[pid |-> pid,
      files |-> [fd \in DOMAIN namespaces[ns][pid].files |->
                    namespaces[ns][pid].files[fd].openFileID]] :
        pid \in (DOMAIN namespaces[ns]) \cap ExposedPids}

\* C19: a namespace of the dump without a process of container-relative pid 1
\* has no entry in the snapshot, which is the one reconstructTables gives for
\* the dump without that namespace; every entry of a snapshot is stored under
\* the global pid of the pid-1 process of a namespace of the dump and lists
\* that namespace's processes.
C19_NoInitNamespaceOmitted ==
    processInfo.set =>
        /\ \A ns \in DOMAIN namespaces :
              ~HasInit(ns) => processInfo.containers = reconstructTables(Without(ns))
        /\ \A g \in DOMAIN processInfo.containers :
              \E ns \in DOMAIN namespaces :
                  /\ HasInit(ns)
                  /\ namespaces[ns][1].containerPID = 1
                  /\ g = namespaces[ns][1].globalPID
                  /\ Listed(processInfo.containers[g]) = Dumped(ns)
        /\ Cardinality(DOMAIN processInfo.containers)
              <= Cardinality({ns \in DOMAIN namespaces : HasInit(ns)})

C19_Witness ==
    /\ processInfo.set
    /\ DOMAIN namespaces = {"nsA", "nsB"}
    /\ DOMAIN namespaces["nsA"] = {2, 3}
    /\ Descriptors("nsA", AllPids) # {}
    /\ HasInit("nsB")
    /\ DOMAIN processInfo.containers = {GlobalPid("nsB", 1)}
    /\ Len(processInfo.containers[GlobalPid("nsB", 1)].processes) = 1

AboveTwo == {pid \in ContainerPids : pid > 2}

\* C20 as claimed: no process with container-relative pid 2 is in a snapshot's
\* process list, and the descriptors of the pid-2 process contribute nothing to
\* the open-file and vnode tables (as for pid 1).
C20_PidTwoExcluded ==
    processInfo.set =>
        \A ns \in DOMAIN namespaces :
            HasEntry(ns) =>
                /\ \A k \in 1..Len(Entry(ns).processes) : Entry(ns).processes[k].pid # 2
                /\ DOMAIN Entry(ns).openFiles = IdsNamed(ns, AboveTwo)
                /\ DOMAIN Entry(ns).vnodes = VnodesNamed(ns, AboveTwo)

\* C20 as amended: of the processes of a namespace only the one with
\* container-relative pid 1 is excluded; every process with pid > 1, the pid-2
\* process included, is in the process list, and the open-file and vnode
\* tables hold what the descriptors of these processes name (the descriptors
\* of the pid-1 process contribute nothing).
C20_OnlyInitExcluded ==
    processInfo.set =>
        \A ns \in DOMAIN namespaces :
            HasEntry(ns) =>
                /\ {Entry(ns).processes[k].pid : k \in 1..Len(Entry(ns).processes)}
                      = (DOMAIN namespaces[ns]) \cap ExposedPids
                /\ DOMAIN Entry(ns).openFiles = IdsNamed(ns, ExposedPids)
                /\ DOMAIN Entry(ns).vnodes = VnodesNamed(ns, ExposedPids)

C20_Witness ==
    /\ processInfo.set
    /\ HasEntry("nsA")
    /\ DOMAIN namespaces["nsA"] = {1, 2}
    /\ IdsNamed("nsA", {1}) = {"f2"}
    /\ IdsNamed("nsA", {2}) = {"f1"}
    /\ Len(Entry("nsA").processes) = 1
    /\ Entry("nsA").processes[1].pid = 2
    /\ DOMAIN Entry("nsA").openFiles = {"f1"}

===========================================================================
